---- MODULE Spec2Model ----
(***************************************************************************)
(* Model of the nfc-spy receiver application (app-rx main.cpp): the poll   *)
(* loop of Main::run, the reconciliation of the receiver and decoder       *)
(* tasks, the frame queue drain, Main::finish and the asynchronous         *)
(* callbacks (status subscriptions, command completions, signals), and     *)
(* Main::detectChanges called on its own over bounded trees.               *)
(***************************************************************************)
EXTENDS Integers, Sequences, FiniteSets, TLC

(***************************************************************************)
(* Bounds of the model.                                                    *)
(***************************************************************************)
\* frames the decoder publishes during a run
MaxFrames == 2
\* termination signals delivered during a run
MaxSignals == 2
\* clock ticks the model follows (the clock saturates there)
MaxTime == 3
\* the numbers 1..MaxValue are the scalars of the trees given to detectChanges
MaxValue == 2
\* calls of detectChanges in a row over the same trees
MaxCalls == 2
\* payload bytes of the longest frame given to printFrame
MaxPayload == 5460
\* commands a task has been sent and has not acknowledged yet
MaxInbox == 2

(***************************************************************************)
(* JSON values (nlohmann::json): null, number, boolean, string, object.    *)
(* A string is kept as its sequence of tokens so that find()/substr() on   *)
(* the receiver name can be computed; ":" is a token of its own.           *)
(***************************************************************************)
Null == [t |-> "null"]

Num(n) == [t |-> "num", v |-> n]

Bool(b) == [t |-> "bool", v |-> b]

Str(s) == [t |-> "str", v |-> <<s>>]

StrT(toks) == [t |-> "str", v |-> toks]

Obj(f) == [t |-> "obj", m |-> f]

\* json::is_null
is_null(j) == j.t = "null"

\* json::is_string
is_string(j) == j.t = "str"

\* json::is_object
is_object(j) == j.t = "obj"

\* json::empty: null is empty, an object is empty when it has no member,
\* any other primitive is never empty
empty(j) ==
  \/ j.t = "null"
  \/ j.t = "obj" /\ DOMAIN j.m = {}

\* json::contains(key) on an object
contains(j, k) == j.t = "obj" /\ k \in DOMAIN j.m

\* operator== of two json values
RECURSIVE JsonEq(_, _)
JsonEq(a, b) ==
  IF a.t # b.t THEN FALSE
  ELSE IF a.t = "null" THEN TRUE
  ELSE IF a.t = "obj"
    THEN /\ DOMAIN a.m = DOMAIN b.m
         /\ \A k \in DOMAIN a.m : JsonEq(a.m[k], b.m[k])
  ELSE a.v = b.v

\* non-const json::operator[](key) can be applied: null or object
\* (any other type throws type_error 305)
CanIndex(j) == j.t \in {"null", "obj"}

\* the members of j once it has been used with operator[] (null becomes {})
Members(j) == IF j.t = "obj" THEN j.m ELSE <<>>

\* value of j[k] for the non-const operator[]: a missing member reads null
Subscript(j, k) ==
  IF k \in DOMAIN Members(j) THEN Members(j)[k] ELSE Null

\* j after the assignment j[k] = v; with v = Subscript(j, k) it is j after a
\* mere read j[k], which inserts a null member when k is missing
Assign(j, k, v) ==
  Obj([x \in DOMAIN Members(j) \cup {k} |-> IF x = k THEN v ELSE Members(j)[x]])

\* j after the expression j[k] has been evaluated
Touch(j, k) == Assign(j, k, Subscript(j, k))

\* the comparison of line 300 when it finds every pair unequal
UnequalAlways(old, new) == TRUE

\* else if (ref[entry.key()] != entry.value())
Unequal(old, new) == ~JsonEq(old, new)

\* the test of line 296 when it keeps every nested result
KeptAlways(tmp) == TRUE

\* if (!tmp.empty())
Kept(tmp) == ~empty(tmp)

(***************************************************************************)
(* Main::detectChanges(ref, set).  Returns the patch (result), the         *)
(* reference tree as the calls of ref[key] leave it (ref), and whether     *)
(* operator[] threw (err).  Every key of set is handled independently of   *)
(* the others, so the loop over set.items() is a map over the keys.        *)
(***************************************************************************)
RECURSIVE detectChanges(_, _)
detectChanges(ref, set) ==
  LET keys == DOMAIN set.m
      old(k) == Subscript(ref, k)
      sub(k) == detectChanges(old(k), set.m[k])
      differs(k) ==
        IF is_object(set.m[k]) THEN Kept(sub(k).result)
        ELSE Unequal(old(k), set.m[k])
      patch(k) == IF is_object(set.m[k]) THEN sub(k).result ELSE set.m[k]
      after(k) == IF is_object(set.m[k]) THEN sub(k).ref ELSE old(k)
      changed == {k \in keys : differs(k)}
      all == DOMAIN Members(ref) \cup keys
  IN IF keys = {} THEN [result |-> Null, ref |-> ref, err |-> FALSE]
     ELSE IF ~CanIndex(ref) THEN [result |-> Null, ref |-> ref, err |-> TRUE]
     ELSE [result |-> IF changed = {} THEN Null
                      ELSE Obj([k \in changed |-> patch(k)]),
           ref |-> Obj([k \in all |-> IF k \in keys THEN after(k)
                                      ELSE Members(ref)[k]]),
           err |-> \E k \in keys : is_object(set.m[k]) /\ sub(k).err]

(***************************************************************************)
(* Configuration trees of the program.                                     *)
(***************************************************************************)
\* one receiver profile (the six keys of an entry of defaultReceiverParams)
Profile(centerFreq, sampleRate, gainValue) ==
  Obj([k \in {"centerFreq", "sampleRate", "gainMode", "gainValue",
              "mixerAgc", "tunerAgc"} |->
         CASE k = "centerFreq" -> Num(centerFreq)
           [] k = "sampleRate" -> Num(sampleRate)
           [] k = "gainMode" -> Num(1)
           [] k = "gainValue" -> Num(gainValue)
           [] OTHER -> Num(0)])

\* Main::defaultReceiverParams
defaultReceiverParams ==
  Obj([k \in {"radio.airspy", "radio.rtlsdr"} |->
         IF k = "radio.airspy" THEN Profile(40680000, 10000000, 3)
         ELSE Profile(27120000, 3200000, 77)])

\* {"enabled": b}
Enabled(b) == Obj([k \in {"enabled"} |-> Bool(b)])

\* Main::decoderParams as constructed
decoderParams0 ==
  Obj([k \in {"debugEnabled", "nfca", "nfcb", "nfcf", "nfcv"} |->
         IF k = "debugEnabled" THEN Bool(FALSE) ELSE Enabled(TRUE)])

(***************************************************************************)
(* Receiver name: std::string type = name.substr(0, name.find(':')).       *)
(***************************************************************************)
\* std::string::find(':'): index (from 0) of the first ":" or npos (-1)
find(name) ==
  IF \E i \in 1..Len(name) : name[i] = ":"
  THEN (CHOOSE i \in 1..Len(name) :
          name[i] = ":" /\ \A j \in 1..(i - 1) : name[j] # ":") - 1
  ELSE -1

\* std::string::substr(0, n); n = npos keeps the whole string
substr(name, n) == IF n = -1 THEN name ELSE SubSeq(name, 1, n)

\* the concatenation of the tokens of a string
RECURSIVE Text(_)
Text(toks) == IF toks = <<>> THEN "" ELSE Head(toks) \o Text(Tail(toks))

\* the device type key of a receiver name
TypeOf(name) == Text(substr(name, find(name)))

(***************************************************************************)
(* Status snapshots the tasks can publish (the "data" of a status event,   *)
(* after json::parse).                                                     *)
(***************************************************************************)
AirspyName == StrT(<<"radio.airspy", ":", "//0">>)

OtherName == StrT(<<"radio.file", ":", "//0">>)

\* a receiver snapshot: the given members on top of a profile's keys
RxSnapshot(status, name, centerFreq) ==
  LET base == Profile(centerFreq, 10000000, 3).m
      extra == {"status", "name"}
  IN Obj([k \in DOMAIN base \cup extra |->
            IF k = "status" THEN status
            ELSE IF k = "name" THEN name
            ELSE base[k]])

\* a snapshot without one of its members
Without(j, key) == Obj([k \in DOMAIN j.m \ {key} |-> j.m[k]])

RxAbsent == Obj([k \in {"status"} |-> Str("absent")])

RxUnnamed == Obj([k \in {"status"} |-> Str("idle")])

RxNoStatus == Without(RxSnapshot(Str("idle"), AirspyName, 40680000), "status")

RxUnknown == RxSnapshot(Str("idle"), OtherName, 40680000)

RxRaw == RxSnapshot(Str("idle"), AirspyName, 13560000)

RxReady == RxSnapshot(Str("idle"), AirspyName, 40680000)

RxNoRate == Without(RxReady, "sampleRate")

ReceiverSnapshots ==
  {RxAbsent, RxUnnamed, RxNoStatus, RxUnknown, RxRaw, RxReady, RxNoRate}

\* a decoder snapshot that reports every key of the decoder parameters
DecSnapshot(status, sampleRate) ==
  Obj([k \in DOMAIN decoderParams0.m \cup {"status", "sampleRate"} |->
         IF k = "status" THEN status
         ELSE IF k = "sampleRate" THEN Num(sampleRate)
         ELSE decoderParams0.m[k]])

DecNoStatus == Obj([k \in {"sampleRate"} |-> Num(10000000)])

DecRaw == Obj([k \in {"status"} |-> Str("idle")])

DecReady == DecSnapshot(Str("idle"), 10000000)

DecAbsent == DecSnapshot(Str("absent"), 10000000)

DecoderSnapshots == {DecNoStatus, DecRaw, DecReady}

(***************************************************************************)
(* State.                                                                  *)
(***************************************************************************)
VARIABLES
  pc,                 \* position of the control thread in Main::run
  terminate,          \* Main::terminate
  notified,           \* a notify_all reached the control thread's wait_for
  shutdowns,          \* calls of executor.shutdown() so far
  signals,            \* termination signals delivered so far
  receiverStatus,     \* Main::receiverStatus
  receiverConfigured, \* Main::receiverConfigured
  decoderStatus,      \* Main::decoderStatus
  decoderConfigured,  \* Main::decoderConfigured
  decoderParams,      \* Main::decoderParams
  callbacks,          \* per command: some completion callback is outstanding
  frameQueue,         \* Main::frameQueue
  produced,           \* frames published on decoder.frame so far
  emitted,            \* frames written to stdout by printFrame, in order
  nsecs,              \* the capture limit of run() (-1: none)
  now,                \* steady_clock::now() - start, in clock ticks
  out,                \* what the last step published, logged or requested
  config,             \* the local config of the check function in progress
  settled,            \* tasks sent Start on an empty diff, no event since
  absentSeen,         \* a tick has found the receiver status "absent"
  subscriptions,      \* the streams initTasks() has subscribed to, in order
  queries,            \* Query commands published so far
  observed,           \* detectChanges: the tree passed as ref, as it is now
  desired,            \* detectChanges: the tree passed as set
  given,              \* detectChanges: ref as it was before the first call
  patches,            \* detectChanges: the results of the calls so far
  raised,             \* detectChanges: a call ended with an exception
  rawFrame,           \* printFrame: the frame being formatted
  step,               \* printFrame: the snprintf call that comes next
  offset,             \* printFrame: int offset
  index,              \* printFrame: the loop variable i
  write,              \* printFrame: the snprintf call made last
  taskStatus,         \* the status each task has, as the task knows it
  inbox,              \* the commands each task has not handled yet
  news,               \* the snapshots each task has published, not delivered
  acks,               \* the commands each task has handled, not acknowledged
  app,                \* the global Main *app
  handlers,           \* SIGINT and SIGTERM are bound to intHandler
  drainFrom,          \* frames produced when the drain loop was entered, or 0
  startedSince        \* tasks sent Start after their last status event

vars ==
  <<pc, terminate, notified, shutdowns, signals, receiverStatus,
    receiverConfigured, decoderStatus, decoderConfigured, decoderParams,
    callbacks, frameQueue, produced, emitted, nsecs, now, out,
    config, settled, absentSeen, subscriptions, queries,
    observed, desired, given, patches, raised,
    rawFrame, step, offset, index, write, taskStatus, inbox, news, acks,
    app, handlers, drainFrom, startedSince>>

\* what initTasks() has done so far
startVars == <<subscriptions, queries>>

\* the arguments, the results and the outcome of the calls of detectChanges
\* that are followed on their own
differVars == <<observed, desired, given, patches, raised>>

\* the call of printFrame that is followed on its own
printVars == <<rawFrame, step, offset, index, write>>

\* the tasks submitted to the executor
Tasks == {"receiver", "decoder"}

\* the tasks at the other end of the streams
taskVars == <<taskStatus, inbox, news, acks>>

\* the globals of main.cpp and the signal dispositions
mainVars == <<app, handlers>>

\* what no step of the supervisor itself changes
restVars == <<printVars, taskVars, mainVars>>

\* the timeout of wait_for in milliseconds; it is the model's clock tick
PollMillis == 500

\* std::chrono::seconds(n) in clock ticks
seconds(n) == (n * 1000) \div PollMillis

\* the capture limits (option -t) the model starts with; -1 is "no limit"
Limits == {-1, 1}

\* the commands that carry a completion callback
CallbackKinds == {"rxConfigure", "rxStart", "decConfigure", "decStart"}

\* a command published on a command stream
Command(to, cmd, data) == [to |-> to, cmd |-> cmd, data |-> data]

\* a call of finish() by one of its callers
Shutdown(by) == [to |-> "executor", cmd |-> "shutdown", data |-> Str(by)]

\* a line of the log
Log(level) == [to |-> "log", cmd |-> level, data |-> Null]

\* a formatted line written to stderr with fprintf
Stderr == [to |-> "stderr", cmd |-> "fprintf", data |-> Null]

\* the members of Main as constructed and the locals of run() when it calls
\* initTasks()
Fields ==
  /\ terminate = FALSE
  /\ notified = FALSE
  /\ shutdowns = 0
  /\ signals = 0
  /\ receiverStatus = Null
  /\ receiverConfigured = FALSE
  /\ decoderStatus = Null
  /\ decoderConfigured = FALSE
  /\ decoderParams = decoderParams0
  /\ callbacks = [k \in CallbackKinds |-> FALSE]
  /\ frameQueue = <<>>
  /\ produced = 0
  /\ emitted = <<>>
  /\ nsecs \in Limits
  /\ now = 0
  /\ out = {}
  /\ config = Null
  /\ settled = {}
  /\ absentSeen = FALSE
  /\ subscriptions = <<>>
  /\ queries = 0
  /\ drainFrom = 0
  /\ startedSince = {}

\* main() has bound the handlers, constructed Main, set app and called run(),
\* which is about to call initTasks()
Constructed ==
  /\ Fields
  /\ pc = "init"
  /\ app = "main"
  /\ handlers = TRUE

\* no call of detectChanges is followed on its own
NoCall ==
  /\ observed = Null
  /\ desired = Null
  /\ given = Null
  /\ patches = <<>>
  /\ raised = FALSE

\* no call of printFrame is followed on its own
NoFrame ==
  /\ rawFrame = Null
  /\ step = "idle"
  /\ offset = 0
  /\ index = 0
  /\ write = Null

\* the tasks are not followed
NoTasks ==
  /\ taskStatus = [t \in Tasks |-> Null]
  /\ inbox = [t \in Tasks |-> <<>>]
  /\ news = [t \in Tasks |-> <<>>]
  /\ acks = [t \in Tasks |-> <<>>]

\* the state when run() calls initTasks()
Init == Constructed /\ NoCall /\ NoFrame /\ NoTasks

\* one more outstanding callback of a kind
Pend(cb, kind) == [cb EXCEPT ![kind] = TRUE]

(***************************************************************************)
(* finish() as it would be without "terminate = true".                     *)
(***************************************************************************)
finishWithoutFlag ==
  /\ shutdowns' = shutdowns + 1
  /\ terminate' = terminate
  /\ notified' = (notified \/ pc = "waiting")

(***************************************************************************)
(* Main::finish.                                                           *)
(***************************************************************************)
finish ==
  /\ shutdowns' = shutdowns + 1
  /\ terminate' = TRUE
  /\ notified' = (notified \/ pc = "waiting")

noFinish == UNCHANGED <<shutdowns, terminate, notified>>

(***************************************************************************)
(* Main::initTasks: the subscriptions, then the Query command.  The tasks  *)
(* were submitted to the executor before, so an event can be delivered as  *)
(* soon as its stream is subscribed.                                       *)
(***************************************************************************)
\* the streams in the order initTasks() subscribes to them
Streams == <<"radio.status", "decoder.status", "decoder.frame">>

\* the handler of a stream can be called
subscribed(stream) ==
  /\ pc # "done"
  /\ \E i \in 1..Len(subscriptions) : subscriptions[i] = stream

\* the next subscribe() call of initTasks()
Subscribe ==
  /\ pc = "init"
  /\ Len(subscriptions) < Len(Streams)
  /\ subscriptions' = Append(subscriptions, Streams[Len(subscriptions) + 1])
  /\ out' = {}
  /\ UNCHANGED <<pc, terminate, notified, shutdowns, signals, receiverStatus,
                 receiverConfigured, decoderStatus, decoderConfigured,
                 decoderParams, callbacks, frameQueue, produced, emitted,
                 nsecs, now, config, settled, absentSeen, queries, differVars, restVars,
                 drainFrom, startedSince>>

\* initTasks() with the Query command ahead of the subscriptions
InitTasksQueryFirst ==
  /\ pc = "init"
  /\ subscriptions = <<>>
  /\ pc' = "test"
  /\ queries' = queries + 1
  /\ out' = {Command("receiver", "Query", Null)}
  /\ UNCHANGED <<terminate, notified, shutdowns, signals, receiverStatus,
                 receiverConfigured, decoderStatus, decoderConfigured,
                 decoderParams, callbacks, frameQueue, produced, emitted,
                 nsecs, now, config, settled, absentSeen, subscriptions,
                 differVars, restVars,
                 drainFrom, startedSince>>

\* the end of initTasks(): receiverCommandStream->next({Query}), and run()
\* goes on to its loop
InitTasks ==
  /\ pc = "init"
  /\ Len(subscriptions) = Len(Streams)
  /\ pc' = "test"
  /\ queries' = queries + 1
  /\ out' = {Command("receiver", "Query", Null)}
  /\ UNCHANGED <<terminate, notified, shutdowns, signals, receiverStatus,
                 receiverConfigured, decoderStatus, decoderConfigured,
                 decoderParams, callbacks, frameQueue, produced, emitted,
                 nsecs, now, config, settled, absentSeen, subscriptions,
                 differVars, restVars,
                 drainFrom, startedSince>>

(***************************************************************************)
(* Main::run, the poll loop.                                               *)
(***************************************************************************)
\* the test of the loop with its negation lost: while (terminate)
LoopTestInverted ==
  /\ pc = "test"
  /\ pc' = IF terminate THEN "lock" ELSE "exit"
  /\ out' = {}
  /\ UNCHANGED <<terminate, notified, shutdowns, signals, receiverStatus,
                 receiverConfigured, decoderStatus, decoderConfigured,
                 decoderParams, callbacks, frameQueue, produced, emitted,
                 nsecs, now, config, settled, absentSeen,
                 startVars, differVars, restVars,
                 drainFrom, startedSince>>

\* while (!terminate), then the lock is taken
LoopTest ==
  /\ pc = "test"
  /\ pc' = IF terminate THEN "exit" ELSE "lock"
  /\ out' = {}
  /\ UNCHANGED <<terminate, notified, shutdowns, signals, receiverStatus,
                 receiverConfigured, decoderStatus, decoderConfigured,
                 decoderParams, callbacks, frameQueue, produced, emitted,
                 nsecs, now, config, settled, absentSeen,
                 startVars, differVars, restVars,
                 drainFrom, startedSince>>

\* sync.wait_for(lock, 500 ms) starts waiting
WaitFor ==
  /\ pc = "lock"
  /\ pc' = "waiting"
  /\ notified' = FALSE
  /\ out' = {}
  /\ UNCHANGED <<terminate, shutdowns, signals, receiverStatus,
                 receiverConfigured, decoderStatus, decoderConfigured,
                 decoderParams, callbacks, frameQueue, produced, emitted,
                 nsecs, now, config, settled, absentSeen,
                 startVars, differVars, restVars,
                 drainFrom, startedSince>>

\* the time the control thread can spend in wait_for, in ticks: up to the
\* timeout, or nothing when it is notified at once.  The clock is read only
\* when a capture limit is set (nsecs > 0 && ...), so it is followed only then.
Delays == IF nsecs > 0 THEN {0, 1} ELSE {0}

\* wait_for returns (notified, timed out or spuriously); if (terminate) break
WakeUp ==
  /\ pc = "waiting"
  /\ \E d \in Delays : now' = IF now + d > MaxTime THEN MaxTime ELSE now + d
  /\ pc' = IF terminate THEN "exit" ELSE "rx"
  /\ notified' = FALSE
  /\ out' = {}
  /\ UNCHANGED <<terminate, shutdowns, signals, receiverStatus,
                 receiverConfigured, decoderStatus, decoderConfigured,
                 decoderParams, callbacks, frameQueue, produced, emitted,
                 nsecs, config, settled, absentSeen,
                 startVars, differVars, restVars,
                 drainFrom, startedSince>>

(***************************************************************************)
(* Main::checkReceiverStatus up to the Configure command: the value it     *)
(* returns early (ret), the trees it leaves, whether it got as far as the  *)
(* diff (diffed), the diff (config) and what it logged.                    *)
(***************************************************************************)
checkReceiverStatus(rs, dp) ==
  LET status == Subscript(rs, "status")
      rs1 == Touch(rs, "status")
      name == Subscript(rs1, "name")
      rs2 == Touch(rs1, "name")
      rs3 == Touch(rs2, "sampleRate")
      dp1 == Assign(dp, "sampleRate", Subscript(rs2, "sampleRate"))
      type == TypeOf(name.v)
      dc == detectChanges(rs3, defaultReceiverParams.m[type])
      early(ret, r, d, log) ==
        [ret |-> ret, rs |-> r, dp |-> d, diffed |-> FALSE, config |-> Null,
         err |-> FALSE, log |-> log]
  IN IF empty(rs) THEN early(0, rs, dp, {})
     ELSE IF is_null(status) \/ JsonEq(status, Str("absent"))
       THEN early(-1, rs1, dp, {Log("info")})
     ELSE IF ~is_string(name) THEN early(-1, rs2, dp, {Log("info")})
     ELSE IF ~contains(defaultReceiverParams, type)
       THEN early(-1, rs3, dp1, {Log("error")})
     ELSE [ret |-> 0, rs |-> dc.ref, dp |-> dp1, diffed |-> TRUE,
           config |-> dc.result, err |-> dc.err,
           log |-> IF empty(dc.result) THEN {} ELSE {Log("info")}]

\* the receiver snapshot has a status and it is "absent"
ReportsAbsent(rs) ==
  ~empty(rs) /\ JsonEq(Subscript(rs, "status"), Str("absent"))

(***************************************************************************)
(* checkReceiverStatus without "receiverConfigured = config.empty()": the  *)
(* flag is left to the callback of the Configure command.                  *)
(***************************************************************************)
CheckReceiverAFlagKept ==
  /\ pc = "rx"
  /\ LET r == checkReceiverStatus(receiverStatus, decoderParams)
     IN /\ receiverStatus' = r.rs
        /\ decoderParams' = r.dp
        /\ IF r.diffed
           THEN /\ pc' = IF r.err THEN "abort" ELSE "rxB"
                /\ receiverConfigured' = receiverConfigured
                /\ callbacks' = IF empty(r.config) THEN callbacks
                                ELSE Pend(callbacks, "rxConfigure")
                /\ out' = r.log \cup
                     (IF empty(r.config) THEN {}
                      ELSE {Command("receiver", "Configure", r.config)})
                /\ config' = r.config
                /\ noFinish
           ELSE /\ pc' = "dec"
                /\ UNCHANGED <<receiverConfigured, callbacks, config>>
                /\ IF r.ret < 0
                   THEN finish /\ out' = r.log \cup {Shutdown("receiver")}
                   ELSE noFinish /\ out' = r.log
  /\ absentSeen' = (absentSeen \/ ReportsAbsent(receiverStatus))
  /\ UNCHANGED <<signals, decoderStatus, decoderConfigured, frameQueue,
                 produced, emitted, nsecs, now, settled,
                 startVars, differVars, restVars,
                 drainFrom, startedSince>>

\* run(): checkReceiverStatus() up to the Configure command, and finish()
\* when it returned early with a negative value
CheckReceiverA ==
  /\ pc = "rx"
  /\ LET r == checkReceiverStatus(receiverStatus, decoderParams)
     IN /\ receiverStatus' = r.rs
        /\ decoderParams' = r.dp
        /\ IF r.diffed
           THEN /\ pc' = IF r.err THEN "abort" ELSE "rxB"
                /\ receiverConfigured' = empty(r.config)
                /\ callbacks' = IF empty(r.config) THEN callbacks
                                ELSE Pend(callbacks, "rxConfigure")
                /\ out' = r.log \cup
                     (IF empty(r.config) THEN {}
                      ELSE {Command("receiver", "Configure", r.config)})
                /\ config' = r.config
                /\ noFinish
           ELSE /\ pc' = "dec"
                /\ UNCHANGED <<receiverConfigured, callbacks, config>>
                /\ IF r.ret < 0
                   THEN finish /\ out' = r.log \cup {Shutdown("receiver")}
                   ELSE noFinish /\ out' = r.log
  /\ absentSeen' = (absentSeen \/ ReportsAbsent(receiverStatus))
  /\ UNCHANGED <<signals, decoderStatus, decoderConfigured, frameQueue,
                 produced, emitted, nsecs, now, settled,
                 startVars, differVars, restVars,
                 drainFrom, startedSince>>

\* checkReceiverStatus() from "if receiver is configured and idle" on
CheckReceiverB ==
  /\ pc = "rxB"
  /\ pc' = "dec"
  /\ LET start == /\ receiverConfigured
                  /\ JsonEq(Subscript(receiverStatus, "status"), Str("idle"))
     IN /\ receiverStatus' = IF receiverConfigured
                             THEN Touch(receiverStatus, "status")
                             ELSE receiverStatus
        /\ callbacks' = IF start THEN Pend(callbacks, "rxStart") ELSE callbacks
        /\ out' = IF start THEN {Command("receiver", "Start", Null)} ELSE {}
        /\ settled' = IF start /\ empty(config)
                       THEN settled \cup {"receiver"} ELSE settled
        /\ startedSince' = IF start THEN startedSince \cup {"receiver"}
                            ELSE startedSince
  /\ config' = Null
  /\ UNCHANGED <<terminate, notified, shutdowns, signals, receiverConfigured,
                 decoderStatus, decoderConfigured, decoderParams, frameQueue,
                 produced, emitted, nsecs, now, absentSeen,
                 startVars, differVars, restVars,
                 drainFrom>>

(***************************************************************************)
(* checkDecoderStatus without "wait until samplerate is configured".       *)
(***************************************************************************)
checkDecoderStatusUngated(ds, dp) ==
  LET status == Subscript(ds, "status")
      ds1 == Touch(ds, "status")
      dc == detectChanges(ds1, dp)
      early(ret, s, d, log) ==
        [ret |-> ret, ds |-> s, dp |-> d, diffed |-> FALSE, config |-> Null,
         err |-> FALSE, log |-> log]
  IN IF empty(ds) THEN early(0, ds, dp, {})
     ELSE IF is_null(status) THEN early(-1, ds1, dp, {Log("info")})
     ELSE [ret |-> 0, ds |-> dc.ref, dp |-> dp, diffed |-> TRUE,
           config |-> dc.result, err |-> dc.err,
           log |-> IF empty(dc.result) THEN {} ELSE {Log("info")}]

(***************************************************************************)
(* Main::checkDecoderStatus up to the Configure command.                   *)
(***************************************************************************)
checkDecoderStatus(ds, dp) ==
  LET status == Subscript(ds, "status")
      ds1 == Touch(ds, "status")
      dp1 == Touch(dp, "sampleRate")
      dc == detectChanges(ds1, dp1)
      early(ret, s, d, log) ==
        [ret |-> ret, ds |-> s, dp |-> d, diffed |-> FALSE, config |-> Null,
         err |-> FALSE, log |-> log]
  IN IF empty(ds) THEN early(0, ds, dp, {})
     ELSE IF is_null(status) THEN early(-1, ds1, dp, {Log("info")})
     ELSE IF is_null(Subscript(dp, "sampleRate")) THEN early(0, ds1, dp1, {})
     ELSE [ret |-> 0, ds |-> dc.ref, dp |-> dp1, diffed |-> TRUE,
           config |-> dc.result, err |-> dc.err,
           log |-> IF empty(dc.result) THEN {} ELSE {Log("info")}]

\* run(): checkDecoderStatus() up to the Configure command, and finish()
\* when it returned early with a negative value
CheckDecoderA ==
  /\ pc = "dec"
  /\ LET r == checkDecoderStatus(decoderStatus, decoderParams)
     IN /\ decoderStatus' = r.ds
        /\ decoderParams' = r.dp
        /\ IF r.diffed
           THEN /\ pc' = IF r.err THEN "abort" ELSE "decB"
                /\ decoderConfigured' = empty(r.config)
                /\ callbacks' = IF empty(r.config) THEN callbacks
                                ELSE Pend(callbacks, "decConfigure")
                /\ out' = r.log \cup
                     (IF empty(r.config) THEN {}
                      ELSE {Command("decoder", "Configure", r.config)})
                /\ config' = r.config
                /\ noFinish
           ELSE /\ pc' = "time"
                /\ UNCHANGED <<decoderConfigured, callbacks, config>>
                /\ IF r.ret < 0
                   THEN finish /\ out' = r.log \cup {Shutdown("decoder")}
                   ELSE noFinish /\ out' = r.log
  /\ UNCHANGED <<signals, receiverStatus, receiverConfigured, frameQueue,
                 produced, emitted, nsecs, now, settled, absentSeen,
                 startVars, differVars, restVars,
                 drainFrom, startedSince>>

\* checkDecoderStatus() from "if decoder is configured and idle" on
CheckDecoderB ==
  /\ pc = "decB"
  /\ pc' = "time"
  /\ LET start == /\ decoderConfigured
                  /\ JsonEq(Subscript(decoderStatus, "status"), Str("idle"))
     IN /\ decoderStatus' = IF decoderConfigured
                            THEN Touch(decoderStatus, "status")
                            ELSE decoderStatus
        /\ callbacks' = IF start THEN Pend(callbacks, "decStart") ELSE callbacks
        /\ out' = IF start THEN {Command("decoder", "Start", Null)} ELSE {}
        /\ settled' = IF start /\ empty(config)
                       THEN settled \cup {"decoder"} ELSE settled
        /\ startedSince' = IF start THEN startedSince \cup {"decoder"}
                            ELSE startedSince
  /\ config' = Null
  /\ UNCHANGED <<terminate, notified, shutdowns, signals, receiverStatus,
                 receiverConfigured, decoderConfigured, decoderParams,
                 frameQueue, produced, emitted, nsecs, now, absentSeen,
                 startVars, differVars, restVars,
                 drainFrom>>

(***************************************************************************)
(* run(): the time limit, the drain of the frame queue, the flush.         *)
(***************************************************************************)
\* the comparison of the time limit with >= in the place of >
limitReachedInclusive(limit, elapsed) ==
  limit > 0 /\ elapsed >= seconds(limit)

\* nsecs > 0 && (steady_clock::now() - start) > seconds(nsecs)
limitReached(limit, elapsed) == limit > 0 /\ elapsed > seconds(limit)

\* the time-limit check leaving the loop as soon as it has called finish()
CheckTimeBreak ==
  /\ pc = "time"
  /\ IF limitReached(nsecs, now)
     THEN finish /\ out' = {Shutdown("time")} /\ pc' = "exit"
     ELSE noFinish /\ out' = {} /\ pc' = "drain"
  /\ drainFrom' = produced
  /\ UNCHANGED <<signals, receiverStatus, receiverConfigured, decoderStatus,
                 decoderConfigured, decoderParams, callbacks, frameQueue,
                 produced, emitted, nsecs, now, config, settled, absentSeen,
                 startVars, differVars, restVars,
                 startedSince>>

\* the time-limit check of run()
CheckTime ==
  /\ pc = "time"
  /\ pc' = "drain"
  /\ IF limitReached(nsecs, now)
     THEN finish /\ out' = {Shutdown("time")}
     ELSE noFinish /\ out' = {}
  /\ drainFrom' = produced
  /\ UNCHANGED <<signals, receiverStatus, receiverConfigured, decoderStatus,
                 decoderConfigured, decoderParams, callbacks, frameQueue,
                 produced, emitted, nsecs, now, config, settled, absentSeen,
                 startVars, differVars, restVars,
                 startedSince>>

\* rt::BlockingQueue::add
add(queue, frame) == Append(queue, frame)

\* rt::BlockingQueue::get without a timeout: the oldest frame, if any
get(queue) ==
  IF queue = <<>> THEN [has |-> FALSE, queue |-> queue]
  ELSE [has |-> TRUE, value |-> Head(queue), queue |-> Tail(queue)]

\* the drain with "if" in the place of "while": one frame per iteration
DrainGetOnce ==
  /\ pc = "drain"
  /\ LET frame == get(frameQueue)
     IN /\ frameQueue' = frame.queue
        /\ emitted' = IF frame.has THEN Append(emitted, frame.value)
                      ELSE emitted
  /\ pc' = "flush"
  /\ out' = {}
  /\ drainFrom' = IF pc' = "flush" THEN 0 ELSE drainFrom
  /\ UNCHANGED <<terminate, notified, shutdowns, signals, receiverStatus,
                 receiverConfigured, decoderStatus, decoderConfigured,
                 decoderParams, callbacks, produced, nsecs, now,
                 config, settled, absentSeen,
                 startVars, differVars, restVars,
                 startedSince>>

\* one turn of while (auto frame = frameQueue.get()) printFrame(...)
DrainGet ==
  /\ pc = "drain"
  /\ LET frame == get(frameQueue)
     IN /\ frameQueue' = frame.queue
        /\ IF frame.has
           THEN pc' = "drain" /\ emitted' = Append(emitted, frame.value)
           ELSE pc' = "flush" /\ emitted' = emitted
  /\ out' = {}
  /\ drainFrom' = IF pc' = "flush" THEN 0 ELSE drainFrom
  /\ UNCHANGED <<terminate, notified, shutdowns, signals, receiverStatus,
                 receiverConfigured, decoderStatus, decoderConfigured,
                 decoderParams, callbacks, produced, nsecs, now,
                 config, settled, absentSeen,
                 startVars, differVars, restVars,
                 startedSince>>

\* fflush(stdout), the lock is released, back to the test of the loop
Flush ==
  /\ pc = "flush"
  /\ pc' = "test"
  /\ out' = {}
  /\ UNCHANGED <<terminate, notified, shutdowns, signals, receiverStatus,
                 receiverConfigured, decoderStatus, decoderConfigured,
                 decoderParams, callbacks, frameQueue, produced, emitted,
                 nsecs, now, config, settled, absentSeen,
                 startVars, differVars, restVars,
                 drainFrom, startedSince>>

\* the loop has seen terminate: return 0
Exit ==
  /\ pc = "exit"
  /\ pc' = "done"
  /\ out' = {}
  /\ UNCHANGED <<terminate, notified, shutdowns, signals, receiverStatus,
                 receiverConfigured, decoderStatus, decoderConfigured,
                 decoderParams, callbacks, frameQueue, produced, emitted,
                 nsecs, now, config, settled, absentSeen,
                 startVars, differVars, restVars,
                 drainFrom, startedSince>>

(***************************************************************************)
(* The subscriptions of initTasks, run by the event delivery threads.      *)
(***************************************************************************)
\* receiverStatus = json::parse(event data)
ReceiverStatusEvent(snapshots) ==
  /\ subscribed("radio.status")
  /\ \E s \in snapshots : receiverStatus' = s
  /\ settled' = {}
  /\ out' = {}
  /\ startedSince' = startedSince \ {"receiver"}
  /\ UNCHANGED <<pc, terminate, notified, shutdowns, signals,
                 receiverConfigured, decoderStatus, decoderConfigured,
                 decoderParams, callbacks, frameQueue, produced, emitted,
                 nsecs, now, config, absentSeen,
                 startVars, differVars, restVars,
                 drainFrom>>

\* decoderStatus = json::parse(event data)
DecoderStatusEvent(snapshots) ==
  /\ subscribed("decoder.status")
  /\ \E s \in snapshots : decoderStatus' = s
  /\ settled' = settled \ {"decoder"}
  /\ out' = {}
  /\ startedSince' = startedSince \ {"decoder"}
  /\ UNCHANGED <<pc, terminate, notified, shutdowns, signals, receiverStatus,
                 receiverConfigured, decoderConfigured, decoderParams,
                 callbacks, frameQueue, produced, emitted, nsecs, now,
                 config, absentSeen,
                 startVars, differVars, restVars,
                 drainFrom>>

\* frameQueue.add(frame); frames are numbered in the order of publication
FrameEvent ==
  /\ subscribed("decoder.frame")
  /\ produced < MaxFrames
  /\ produced' = produced + 1
  /\ frameQueue' = add(frameQueue, produced + 1)
  /\ out' = {}
  /\ UNCHANGED <<pc, terminate, notified, shutdowns, signals, receiverStatus,
                 receiverConfigured, decoderStatus, decoderConfigured,
                 decoderParams, callbacks, emitted, nsecs, now,
                 config, settled, absentSeen,
                 startVars, differVars, restVars,
                 drainFrom, startedSince>>

(***************************************************************************)
(* The completion callbacks of the commands, run by the task threads.      *)
(***************************************************************************)
\* a task acknowledges a command of the kind: one of its outstanding
\* callbacks is invoked, and others of the kind may remain
Invoked(kind) ==
  /\ pc # "done"
  /\ callbacks[kind]
  /\ \E more \in BOOLEAN : callbacks' = [callbacks EXCEPT ![kind] = more]
  /\ out' = {}

\* [=]() { receiverConfigured = true; }
ReceiverConfigureDone ==
  /\ Invoked("rxConfigure")
  /\ receiverConfigured' = TRUE
  /\ UNCHANGED <<pc, terminate, notified, shutdowns, signals, receiverStatus,
                 decoderStatus, decoderConfigured, decoderParams, frameQueue,
                 produced, emitted, nsecs, now, config, settled, absentSeen,
                 startVars, differVars, restVars,
                 drainFrom, startedSince>>

\* [=]() { receiverStatus["status"] = "waiting"; }
ReceiverStartDone ==
  /\ Invoked("rxStart")
  /\ receiverStatus' = Assign(receiverStatus, "status", Str("waiting"))
  /\ UNCHANGED <<pc, terminate, notified, shutdowns, signals,
                 receiverConfigured, decoderStatus, decoderConfigured,
                 decoderParams, frameQueue, produced, emitted, nsecs, now,
                 config, settled, absentSeen,
                 startVars, differVars, restVars,
                 drainFrom, startedSince>>

\* [=]() { decoderConfigured = true; }
DecoderConfigureDone ==
  /\ Invoked("decConfigure")
  /\ decoderConfigured' = TRUE
  /\ UNCHANGED <<pc, terminate, notified, shutdowns, signals, receiverStatus,
                 receiverConfigured, decoderStatus, decoderParams, frameQueue,
                 produced, emitted, nsecs, now, config, settled, absentSeen,
                 startVars, differVars, restVars,
                 drainFrom, startedSince>>

\* [=]() { decoderStatus["status"] = "waiting"; }
DecoderStartDone ==
  /\ Invoked("decStart")
  /\ decoderStatus' = Assign(decoderStatus, "status", Str("waiting"))
  /\ UNCHANGED <<pc, terminate, notified, shutdowns, signals, receiverStatus,
                 receiverConfigured, decoderConfigured, decoderParams,
                 frameQueue, produced, emitted, nsecs, now,
                 config, settled, absentSeen,
                 startVars, differVars, restVars,
                 drainFrom, startedSince>>

(***************************************************************************)
(* intHandler: a termination signal calls app->finish().                   *)
(***************************************************************************)
\* what app->finish() does while app is the null pointer it is initialised
\* to: the behaviour is undefined; the access to the members of Main through
\* the null pointer faults, or the call returns without a visible effect
NullCall == {"fault", "return"}

Signal ==
  /\ handlers
  /\ pc # "done"
  /\ signals < MaxSignals
  /\ signals' = signals + 1
  /\ IF app = "main"
     THEN /\ finish
          /\ out' = {Stderr, Shutdown("signal")}
          /\ pc' = pc
     ELSE /\ noFinish
          /\ out' = {Stderr}
          /\ \E outcome \in NullCall :
               pc' = IF outcome = "fault" THEN "abort" ELSE pc
  /\ UNCHANGED <<receiverStatus, receiverConfigured, decoderStatus,
                 decoderConfigured, decoderParams, callbacks, frameQueue,
                 produced, emitted, nsecs, now, config, settled, absentSeen,
                 startVars, differVars, restVars,
                 drainFrom, startedSince>>

(***************************************************************************)
(* Specifications.                                                         *)
(***************************************************************************)
\* the steps of the control thread as long as no task has reported a
\* snapshot that passes the checks before the diff
Loop ==
  \/ Subscribe
  \/ InitTasks
  \/ LoopTest
  \/ WaitFor
  \/ WakeUp
  \/ CheckReceiverA
  \/ CheckDecoderA
  \/ CheckTime
  \/ DrainGet
  \/ Flush
  \/ Exit

\* the steps of the control thread
Control ==
  \/ Loop
  \/ CheckReceiverB
  \/ CheckDecoderB

\* the completion callbacks
Completions ==
  \/ ReceiverConfigureDone
  \/ ReceiverStartDone
  \/ DecoderConfigureDone
  \/ DecoderStartDone

\* the receiver snapshots with a status other than "absent" and a name
NamedReceivers ==
  {s \in ReceiverSnapshots :
     /\ ~is_null(Subscript(s, "status"))
     /\ ~ReportsAbsent(s)
     /\ is_string(Subscript(s, "name"))}

\* the decoder snapshots with a status
ValidDecoders == {s \in DecoderSnapshots : ~is_null(Subscript(s, "status"))}

\* the state when run() is called without option -t
InitUnlimited == Init /\ nsecs = -1

\* Reconciliation: a run without capture limit in which a named receiver and
\* a valid decoder report their snapshots and acknowledge commands at any
\* time
Next ==
  \/ Control
  \/ ReceiverStatusEvent(NamedReceivers)
  \/ DecoderStatusEvent(ValidDecoders)
  \/ Completions

Spec == InitUnlimited /\ [][Next]_vars

\* Lifecycle: a run with or without capture limit in which frames and
\* termination signals arrive, each task reports a failure or its converged
\* snapshot, and no command is acknowledged
NextLifecycle ==
  \/ Control
  \/ ReceiverStatusEvent({RxAbsent, RxReady})
  \/ DecoderStatusEvent({DecNoStatus, DecReady})
  \/ FrameEvent
  \/ Signal

Lifecycle == Init /\ [][NextLifecycle]_vars

\* the snapshots on which the check functions return a negative value
FailedReceivers ==
  {s \in ReceiverSnapshots : checkReceiverStatus(s, decoderParams0).ret < 0}

FailedDecoders ==
  {s \in DecoderSnapshots : checkDecoderStatus(s, decoderParams0).ret < 0}

\* Teardown: a run with or without capture limit in which frames and
\* termination signals arrive and the tasks report failures only
NextTeardown ==
  \/ Loop
  \/ ReceiverStatusEvent(FailedReceivers)
  \/ DecoderStatusEvent(FailedDecoders)
  \/ FrameEvent
  \/ Signal

Teardown == Init /\ [][NextTeardown]_vars

\* the control thread keeps running: wait_for returns after its timeout at
\* the latest and no step of the loop blocks
FairTeardown == Teardown /\ WF_vars(Loop)

(***************************************************************************)
(* main(): the signal handlers, the Main object, the global pointer.       *)
(***************************************************************************)
\* the process enters main(): app is a zero-initialised global, no handler
\* is bound, and Main will be constructed with the members of Fields
InitMain ==
  /\ Fields
  /\ pc = "main"
  /\ app = "null"
  /\ handlers = FALSE
  /\ NoCall
  /\ NoFrame
  /\ NoTasks

\* a step of main() or of the start of run() that touches none of the
\* members the model follows
MainStep(from, to) ==
  /\ pc = from
  /\ pc' = to
  /\ out' = {}
  /\ UNCHANGED <<terminate, notified, shutdowns, signals, receiverStatus,
                 receiverConfigured, decoderStatus, decoderConfigured,
                 decoderParams, callbacks, frameQueue, produced, emitted,
                 nsecs, now, config, settled, absentSeen,
                 startVars, differVars, printVars, taskVars,
                 drainFrom, startedSince>>

\* rt::Logger::init ... signal(SIGINT, intHandler); signal(SIGTERM, ...)
RegisterHandlers ==
  /\ MainStep("main", "construct")
  /\ handlers' = TRUE
  /\ app' = app

\* Main main;
ConstructMain ==
  /\ MainStep("construct", "assign")
  /\ UNCHANGED mainVars

\* app = &main;
SetApp ==
  /\ MainStep("assign", "run")
  /\ app' = "main"
  /\ handlers' = handlers

\* main.run(argc, argv) up to the call of initTasks()
EnterRun ==
  /\ MainStep("run", "init")
  /\ UNCHANGED mainVars

\* Startup: the process from the entry of main() on, with frames and
\* termination signals arriving at any time and tasks that report failures
NextStartup ==
  \/ RegisterHandlers
  \/ ConstructMain
  \/ SetApp
  \/ EnterRun
  \/ NextTeardown

Startup == InitMain /\ [][NextStartup]_vars

(***************************************************************************)
(* The tasks as the supervisor expects them: a task handles its commands   *)
(* in the order they were published, applies a Configure payload to its    *)
(* status, leaves "idle" on Start, publishes its status on a query and     *)
(* after each change, and acknowledges Configure and Start.                *)
(***************************************************************************)
\* the status of a task after it has applied a Configure payload
RECURSIVE Merge(_, _)
Merge(old, patch) ==
  IF is_object(old) /\ is_object(patch)
  THEN Obj([k \in DOMAIN old.m \cup DOMAIN patch.m |->
              IF k \notin DOMAIN patch.m THEN old.m[k]
              ELSE IF k \notin DOMAIN old.m THEN patch.m[k]
              ELSE Merge(old.m[k], patch.m[k])])
  ELSE patch

\* the status of a task after it has handled a command
Handled(old, c) ==
  IF c.cmd = "Configure" THEN Merge(old, c.data)
  ELSE IF c.cmd = "Start" THEN Assign(old, "status", Str("streaming"))
  ELSE old

\* the callback kind of a command sent to a task
Kind(t, cmd) == (IF t = "receiver" THEN "rx" ELSE "dec") \o cmd

\* the stream a task publishes its status on
StatusStream(t) == IF t = "receiver" THEN "radio.status" ELSE "decoder.status"

\* the commands the control thread has published are on their way to the
\* tasks
Posted == ~\E c \in out : c.to \in Tasks

\* no task has MaxInbox commands to acknowledge
Room == \A t \in Tasks : Len(inbox[t]) + Len(acks[t]) < MaxInbox

\* a receiver that has not been configured and a decoder that reports its
\* status when it starts; both idle
InitCooperative ==
  /\ Constructed
  /\ nsecs = -1
  /\ NoCall
  /\ NoFrame
  /\ taskStatus \in [receiver : {RxRaw, RxReady}, decoder : {DecRaw, DecReady}]
  /\ inbox = [t \in Tasks |-> <<>>]
  /\ news = [t \in Tasks |-> IF t = "decoder" THEN <<taskStatus[t]>> ELSE <<>>]
  /\ acks = [t \in Tasks |-> <<>>]

\* a command the control thread has published reaches the queue of its task
Post ==
  /\ \E c \in out :
       /\ c.to \in Tasks
       /\ inbox' = [inbox EXCEPT ![c.to] = Append(@, c)]
       /\ out' = out \ {c}
  /\ UNCHANGED <<pc, terminate, notified, shutdowns, signals, receiverStatus,
                 receiverConfigured, decoderStatus, decoderConfigured,
                 decoderParams, callbacks, frameQueue, produced, emitted,
                 nsecs, now, config, settled, absentSeen, startVars,
                 differVars, printVars, mainVars, drainFrom, startedSince,
                 taskStatus, news, acks>>

\* the control thread takes a step once the commands of its last step are
\* on their way
Supervise == Posted /\ Room /\ Control

\* a task handles its oldest command
Handle(t) ==
  /\ inbox[t] # <<>>
  /\ LET c == Head(inbox[t])
         new == Handled(taskStatus[t], c)
     IN /\ inbox' = [inbox EXCEPT ![t] = Tail(@)]
        /\ taskStatus' = [taskStatus EXCEPT ![t] = new]
        /\ news' = IF c.cmd = "Query" \/ new # taskStatus[t]
                   THEN [news EXCEPT ![t] = Append(@, new)] ELSE news
        /\ acks' = IF c.cmd = "Query" THEN acks
                   ELSE [acks EXCEPT ![t] = Append(@, c.cmd)]
  /\ UNCHANGED <<out, pc, terminate, notified, shutdowns, signals, receiverStatus,
                 receiverConfigured, decoderStatus, decoderConfigured,
                 decoderParams, callbacks, frameQueue, produced, emitted,
                 nsecs, now, config, settled, absentSeen, startVars,
                 differVars, printVars, mainVars, drainFrom, startedSince>>

\* a task acknowledges the oldest command it has handled: the completion
\* callback of the command runs
Acknowledge(t) ==
  /\ acks[t] # <<>>
  /\ LET cmd == Head(acks[t])
         left == {inbox[t][i].cmd : i \in 1..Len(inbox[t])} \cup
                 {acks[t][i] : i \in 2..Len(acks[t])}
         waiting(j) == Assign(j, "status", Str("waiting"))
     IN /\ acks' = [acks EXCEPT ![t] = Tail(@)]
        /\ callbacks' = [callbacks EXCEPT ![Kind(t, cmd)] = cmd \in left]
        /\ receiverConfigured' =
             (receiverConfigured \/ (t = "receiver" /\ cmd = "Configure"))
        /\ decoderConfigured' =
             (decoderConfigured \/ (t = "decoder" /\ cmd = "Configure"))
        /\ receiverStatus' = IF t = "receiver" /\ cmd = "Start"
                             THEN waiting(receiverStatus) ELSE receiverStatus
        /\ decoderStatus' = IF t = "decoder" /\ cmd = "Start"
                            THEN waiting(decoderStatus) ELSE decoderStatus
  /\ UNCHANGED <<out, pc, terminate, notified, shutdowns, signals, decoderParams,
                 frameQueue, produced, emitted, nsecs, now, config, settled,
                 absentSeen, startVars, differVars, printVars, mainVars,
                 drainFrom, startedSince, taskStatus, inbox, news>>

\* the oldest snapshot a task has published reaches the subscription handler
Deliver(t) ==
  /\ subscribed(StatusStream(t))
  /\ news[t] # <<>>
  /\ news' = [news EXCEPT ![t] = Tail(@)]
  /\ receiverStatus' = IF t = "receiver" THEN Head(news[t]) ELSE receiverStatus
  /\ decoderStatus' = IF t = "decoder" THEN Head(news[t]) ELSE decoderStatus
  /\ settled' = IF t = "receiver" THEN {} ELSE settled \ {t}
  /\ startedSince' = startedSince \ {t}
  /\ UNCHANGED <<out, pc, terminate, notified, shutdowns, signals,
                 receiverConfigured, decoderConfigured, decoderParams,
                 callbacks, frameQueue, produced, emitted, nsecs, now, config,
                 absentSeen, startVars, differVars, printVars, mainVars,
                 drainFrom, taskStatus, inbox, acks>>

\* Cooperative: a run without capture limit, frames and signals, with tasks
\* that do what they are told
NextCooperative ==
  \/ Post
  \/ Supervise
  \/ \E t \in Tasks : Handle(t)
  \/ \E t \in Tasks : Acknowledge(t)
  \/ \E t \in Tasks : Deliver(t)

Cooperative == InitCooperative /\ [][NextCooperative]_vars

\* the control thread can take a step: it has not left the loop
SuperviseEnabled == Posted /\ Room /\ pc \notin {"exit", "done", "abort"}

\* the control thread keeps running (weak fairness of Supervise, with its
\* enabling condition written out), commands and snapshots in flight arrive,
\* and every task handles and acknowledges the commands it is sent
FairCooperative ==
  /\ Cooperative
  /\ ([]<>~SuperviseEnabled \/ []<><<Supervise>>_vars)
  /\ WF_vars(Post)
  /\ \A t \in Tasks :
       WF_vars(Handle(t)) /\ WF_vars(Acknowledge(t)) /\ WF_vars(Deliver(t))

\* Failures: a run without capture limit in which the tasks report any of
\* their snapshots, a decoder that is absent included, and no command is
\* acknowledged
NextFailures ==
  \/ Control
  \/ ReceiverStatusEvent(ReceiverSnapshots)
  \/ DecoderStatusEvent(DecoderSnapshots \cup {DecAbsent})

Failures == InitUnlimited /\ [][NextFailures]_vars

(***************************************************************************)
(* detectChanges on its own: calls of the function over trees of scalars   *)
(* and nested maps.                                                        *)
(***************************************************************************)
\* the scalars of the trees: null and the numbers 1..MaxValue
Scalars == {Null} \cup {Num(n) : n \in 1..MaxValue}

\* the objects with some of the keys, each with one of the values
TreesOver(keys, values) ==
  UNION {{Obj(f) : f \in [K -> values]} : K \in SUBSET keys}

\* the nested maps: scalars under "c" and "d", the empty map included
Leaves == TreesOver({"c", "d"}, Scalars)

\* the trees: a scalar under "a", a scalar or a nested map under "b"
Trees ==
  {t \in TreesOver({"a", "b"}, Scalars \cup Leaves) :
     contains(t, "a") => ~is_object(t.m["a"])}

\* {a:1, b:{c:2,d:3}}
ExampleDesired ==
  Obj([k \in {"a", "b"} |->
         IF k = "a" THEN Num(1)
         ELSE Obj([x \in {"c", "d"} |-> IF x = "c" THEN Num(2) ELSE Num(3)])])

\* {a:1, b:{c:9,d:3}}
ExampleObserved ==
  Obj([k \in {"a", "b"} |->
         IF k = "a" THEN Num(1)
         ELSE Obj([x \in {"c", "d"} |-> IF x = "c" THEN Num(9) ELSE Num(3)])])

\* {b:{c:2}}
ExamplePatch ==
  Obj([k \in {"b"} |-> Obj([x \in {"c"} |-> Num(2)])])

\* the pairs <<ref, set>> detectChanges is called with
Inputs == (Trees \X Trees) \cup {<<ExampleObserved, ExampleDesired>>}

InitDiffer ==
  /\ Constructed
  /\ nsecs = -1
  /\ \E pair \in Inputs : observed = pair[1] /\ desired = pair[2]
  /\ given = observed
  /\ patches = <<>>
  /\ raised = FALSE
  /\ NoFrame
  /\ NoTasks

\* json config = detectChanges(ref, set): ref is left as the calls of
\* operator[] made it; a call that throws returns nothing and ends the calls
DetectChanges ==
  /\ ~raised
  /\ Len(patches) < MaxCalls
  /\ LET r == detectChanges(observed, desired)
     IN /\ observed' = r.ref
        /\ raised' = r.err
        /\ patches' = IF r.err THEN patches ELSE Append(patches, r.result)
  /\ UNCHANGED <<pc, terminate, notified, shutdowns, signals, receiverStatus,
                 receiverConfigured, decoderStatus, decoderConfigured,
                 decoderParams, callbacks, frameQueue, produced, emitted,
                 nsecs, now, out, config, settled, absentSeen, startVars,
                 desired, given, restVars, drainFrom, startedSince>>

Differ == InitDiffer /\ [][DetectChanges]_vars

(***************************************************************************)
(* printFrame on its own: one action for each call of snprintf.            *)
(***************************************************************************)
\* char buffer[16384]
BufferSize == 16384

\* the length of "%010.3f " for a time below 10^6 seconds
TimeChars == 11

\* the length of "%02X " for a byte
ByteChars == 3

\* the entries of the frame type catalog that are printed, data frames last
frameType == <<"CarrierOff", "CarrierOn", "PCD->PICC", "PICC->PCD">>

\* frame.frameType() is NfcPollFrame or NfcListenFrame
IsDataFrame(f) == f.type \in {"PCD->PICC", "PICC->PCD"}

\* the length of "(%s) " for a frame type
TypeChars(f) == Len(f.type) + 3

\* the length of "[%s@%.0f]: " for a tech name and a rate in kbps
TechChars(f) == 1 + Len(f.tech) + 1 + Len(f.rate) + 3

\* the payload lengths of the frames that are formatted
PayloadSizes == {0, 1, MaxPayload}

\* the frames given to printFrame: a frame without data and a poll frame
RawFrames ==
  {[type |-> frameType[k], tech |-> "NfcA", rate |-> "106", size |-> n] :
     k \in {1, 3}, n \in PayloadSizes}

\* the smaller of two numbers
Min(a, b) == IF a < b THEN a ELSE b

\* snprintf(buffer + at, size, ...) for a text of n characters, where size is
\* given as the difference it is computed from: the size_t argument is that
\* difference modulo 2^64, so a negative one stands for a size above every
\* text length. The call returns n and stores the text cut to size - 1
\* characters and a NUL; with a wrapped size the C library either stores the
\* whole text or refuses the size (above INT_MAX) and returns -1
snprintf(at, size, n) ==
  IF size < 0
  THEN {[at |-> at, size |-> size, stored |-> n + 1, ret |-> n],
        [at |-> at, size |-> size, stored |-> 0, ret |-> -1]}
  ELSE {[at |-> at, size |-> size,
         stored |-> IF size = 0 THEN 0 ELSE Min(n, size - 1) + 1,
         ret |-> n]}

\* printFrame is entered with a frame: int offset = 0
InitPrinter ==
  /\ Constructed
  /\ nsecs = -1
  /\ NoCall
  /\ NoTasks
  /\ rawFrame \in RawFrames
  /\ step = "time"
  /\ offset = 0
  /\ index = 0
  /\ write = Null

\* offset += snprintf(buffer + offset, size, ...) for a text of n characters
Format(from, to, size, n) ==
  /\ step = from
  /\ step' = to
  /\ \E call \in snprintf(offset, size, n) :
       /\ write' = call
       /\ offset' = offset + call.ret
  /\ UNCHANGED <<pc, terminate, notified, shutdowns, signals, receiverStatus,
                 receiverConfigured, decoderStatus, decoderConfigured,
                 decoderParams, callbacks, frameQueue, produced, emitted,
                 nsecs, now, out, config, settled, absentSeen, startVars,
                 differVars, taskVars, mainVars, drainFrom, startedSince,
                 rawFrame>>

\* add datagram time
FormatTime ==
  /\ Format("time", "type", BufferSize, TimeChars)
  /\ index' = index

\* add frame type
FormatType ==
  /\ Format("type", IF IsDataFrame(rawFrame) THEN "tech" ELSE "stdout",
            BufferSize, TypeChars(rawFrame))
  /\ index' = index

\* add tech type
FormatTech ==
  /\ Format("tech", "data", BufferSize, TechChars(rawFrame))
  /\ index' = index

\* one turn of for (int i = 0; i < frame.size(); i++)
FormatByte ==
  /\ index < rawFrame.size
  /\ Format("data", "data", BufferSize - offset, ByteChars)
  /\ index' = index + 1

\* send to stdout
WriteLine ==
  /\ step = "stdout" \/ (step = "data" /\ index = rawFrame.size)
  /\ step' = "idle"
  /\ out' = {[to |-> "stdout", cmd |-> "fprintf", data |-> Null]}
  /\ UNCHANGED <<pc, terminate, notified, shutdowns, signals, receiverStatus,
                 receiverConfigured, decoderStatus, decoderConfigured,
                 decoderParams, callbacks, frameQueue, produced, emitted,
                 nsecs, now, config, settled, absentSeen, startVars,
                 differVars, taskVars, mainVars, drainFrom, startedSince,
                 rawFrame, offset, index, write>>

NextPrinter ==
  \/ FormatTime
  \/ FormatType
  \/ FormatTech
  \/ FormatByte
  \/ WriteLine

Printer == InitPrinter /\ [][NextPrinter]_vars

(***************************************************************************)
(* Properties.                                                             *)
(***************************************************************************)
\* the Configure and Start commands among what a step published, for a task
Published(o, task) ==
  {c \in o : c.to = task /\ c.cmd \in {"Configure", "Start"}}

\* the calls of finish() among what a step did
Requests(o) == {c \in o : c.to = "executor"}

\* the calls of finish() by the poll loop among what a step did
LoopRequests(o) == {c \in Requests(o) : c.data # Str("signal")}

\* C1: once a tick has computed an empty diff for a task and published Start
\* to it, no later tick publishes Configure or Start to that task as long as
\* no new status snapshot has arrived, whenever the Start callback runs.
Convergence ==
  [][\A task \in settled : Published(out', task) = {}]_vars

\* C2: however often and by whomever finish() is called, the executor is
\* asked to shut down exactly once: not at all before the first call, once
\* from then on.
IdempotentShutdown == shutdowns = IF terminate THEN 1 ELSE 0

\* the receiver check of this step finds the status "absent"
AbsentTick == pc = "rx" /\ pc' # "rx" /\ ReportsAbsent(receiverStatus)

\* C3 as stated: the tick that finds the receiver "absent" requests shutdown,
\* the poll loop requests no other shutdown in the rest of the run, and no
\* Configure or Start goes to the receiver from that tick on.
AbsentSingleRequest ==
  [][/\ AbsentTick =>
          Shutdown("receiver") \in out' /\ Published(out', "receiver") = {}
     /\ absentSeen =>
          LoopRequests(out') = {} /\ Published(out', "receiver") = {}]_vars

\* C3 amended: the receiver check of the tick that finds the receiver
\* "absent" requests shutdown once and never again, and no Configure or
\* Start goes to the receiver from that tick on; the other checks of the
\* loop may request shutdown as well.
AbsentReceiverRequest ==
  [][/\ AbsentTick =>
          Shutdown("receiver") \in out' /\ Published(out', "receiver") = {}
     /\ absentSeen =>
          /\ Shutdown("receiver") \notin out'
          /\ Published(out', "receiver") = {}]_vars

\* a run has ended after a tick found the receiver "absent"
AbsentStopped == absentSeen /\ pc = "done"

\* the receiver snapshot passes the status and name checks and its type has
\* no entry in defaultReceiverParams
UnknownProfile(rs) ==
  /\ ~empty(rs)
  /\ ~is_null(Subscript(rs, "status"))
  /\ ~ReportsAbsent(rs)
  /\ is_string(Subscript(rs, "name"))
  /\ ~contains(defaultReceiverParams, TypeOf(Subscript(rs, "name").v))

\* C4: a tick that finds a receiver name whose type has no default profile
\* logs an error, publishes no Configure or Start to the receiver, requests
\* no shutdown and leaves the termination flag as it is.
UnknownProfileNonFatal ==
  [][(pc = "rx" /\ pc' # "rx" /\ UnknownProfile(receiverStatus)) =>
       /\ Log("error") \in out'
       /\ Published(out', "receiver") = {}
       /\ Requests(out') = {}
       /\ terminate' = terminate]_vars

\* C5: when the poll loop has exited, the frame queue holds no frame: every
\* frame that was queued has been emitted.
NoFrameLost == pc = "done" => frameQueue = <<>>

\* C6: the frames emitted followed by the frames still queued are the frames
\* published, in their order of publication, and the queue is empty when a
\* drain finishes.
FrameOrdering ==
  /\ [](emitted \o frameQueue = [i \in 1..produced |-> i])
  /\ [][(pc = "drain" /\ pc' = "flush") => frameQueue' = <<>>]_vars

\* a drain has finished after two frames or more were emitted
FramesDrained == pc = "flush" /\ Len(emitted) >= 2 /\ frameQueue = <<>>

\* the time-limit check of this step runs
TimeTick == pc = "time" /\ pc' = "drain"

\* C7 as stated: with a limit of N > 0 seconds a tick requests the time-limit
\* shutdown exactly when its elapsed time is N seconds or more.
TimeLimitAtOrAfter ==
  [][(TimeTick /\ nsecs > 0) =>
       (Shutdown("time") \in out' <=> now >= seconds(nsecs))]_vars

\* C7 amended: a tick requests the time-limit shutdown exactly when a limit
\* of N > 0 seconds is set and its elapsed time is more than N seconds.
TimeLimitExceeded ==
  [][TimeTick =>
       (Shutdown("time") \in out' <=> (nsecs > 0 /\ now > seconds(nsecs)))]_vars

\* the time-limit shutdown has just been requested
TimeLimitFired == Shutdown("time") \in out /\ now > seconds(nsecs)

\* the state of the poll loop
LoopState ==
  CASE pc = "done" -> "Stopped"
    [] pc = "exit" -> "Terminating"
    [] OTHER -> "Running"

\* C8: the poll loop only moves Running -> Terminating -> Stopped, it leaves
\* Running only when it has read the termination flag as true, and after a
\* shutdown request it eventually is Stopped.
PollLoopLifecycle ==
  /\ [][LoopState' # LoopState =>
          /\ <<LoopState, LoopState'>> \in
               {<<"Running", "Terminating">>, <<"Terminating", "Stopped">>}
          /\ LoopState = "Running" => terminate]_vars
  /\ (shutdowns > 0) ~> (pc = "done")

\* the poll loop has stopped after a shutdown request
LoopStopped == pc = "done" /\ shutdowns > 0

\* C9: while the control thread is inside a check function, between its
\* reads of a task's snapshot, no other thread writes that snapshot.
SynchronizedSnapshots ==
  [][pc' = pc =>
       /\ pc = "rxB" => JsonEq(receiverStatus', receiverStatus)
       /\ pc = "decB" => JsonEq(decoderStatus', decoderStatus)]_vars

\* the sampleRate of the decoder parameters
DesiredRate(dp) == Subscript(dp, "sampleRate")

\* C10: a step that publishes Configure or Start to the decoder finds a
\* sampleRate in the decoder parameters, and the only step that changes that
\* sampleRate is the receiver check, which sets it to the sampleRate of the
\* receiver snapshot.
DecoderGating ==
  [][/\ Published(out', "decoder") # {} =>
          ~is_null(DesiredRate(decoderParams)) /\
          ~is_null(DesiredRate(decoderParams'))
     /\ ~JsonEq(DesiredRate(decoderParams'), DesiredRate(decoderParams)) =>
          /\ pc = "rx"
          /\ JsonEq(DesiredRate(decoderParams'),
                    Subscript(receiverStatus, "sampleRate"))]_vars

\* a command has just been published to the decoder
DecoderCommanded ==
  /\ Published(out, "decoder") # {}
  /\ ~is_null(DesiredRate(decoderParams))

\* C11: a step taken in the signal-delivery context (intHandler) only sets
\* the termination flag and wakes the waiter: it does not ask the executor to
\* shut down and it writes no formatted output.
SignalContextRestricted ==
  [][signals' # signals =>
       /\ terminate'
       /\ shutdowns' = shutdowns
       /\ out' = {}]_vars

\* the Query commands among what a step published
Queries(o) == {c \in o : c.cmd = "Query"}

\* C12: the Query command is published by a step that finds the three
\* subscriptions established, it is published exactly once per run (not
\* before initTasks() ends, once from then on), and no Configure or Start is
\* published before it.
StartupOrdering ==
  /\ [](queries = IF pc = "init" THEN 0 ELSE 1)
  /\ [][/\ Queries(out') # {} =>
             subscriptions = Streams /\ queries' = queries + 1
        /\ Queries(out') = {} => queries' = queries
        /\ Published(out', "receiver") \cup Published(out', "decoder") # {} =>
             queries = 1]_vars

\* a Configure command has been published to the receiver after the Query
ConfiguredAfterQuery ==
  /\ queries = 1
  /\ \E c \in Published(out, "receiver") : c.cmd = "Configure"
  /\ subscriptions = Streams

\* every key of the patch p is a key of d whose value in d differs from its
\* value in o, at every depth, and a scalar key carries the value of d
RECURSIVE Minimal(_, _, _)
Minimal(p, o, d) ==
  \/ is_null(p)
  \/ /\ is_object(p)
     /\ is_object(d)
     /\ \A k \in DOMAIN p.m :
          /\ k \in DOMAIN d.m
          /\ ~JsonEq(Subscript(o, k), d.m[k])
          /\ IF is_object(d.m[k])
             THEN /\ ~empty(p.m[k])
                  /\ Minimal(p.m[k], Subscript(o, k), d.m[k])
             ELSE JsonEq(p.m[k], d.m[k])

\* C13: every key of a patch detectChanges returns, at any depth, is a key of
\* the desired tree whose value differs from the observed one, so no key
\* with equal values is in the patch; for the trees of the example the patch
\* is {b:{c:2}}.
DiffMinimality ==
  \A i \in 1..Len(patches) :
    /\ Minimal(patches[i], given, desired)
    /\ (given = ExampleObserved /\ desired = ExampleDesired) =>
         patches[i] = ExamplePatch

\* the patch of the example has been computed
DiffExample ==
  /\ patches # <<>>
  /\ given = ExampleObserved
  /\ desired = ExampleDesired
  /\ JsonEq(patches[1], ExamplePatch)

\* C14: detectChanges called with a tree as both the observed and the
\* desired tree ends without an exception and returns an empty patch.
DiffIdentity ==
  JsonEq(given, desired) =>
    /\ ~raised
    /\ \A i \in 1..Len(patches) : empty(patches[i])

\* the patch of a tree with a null scalar and a nested map against itself
\* has been computed
DiffOfSelf ==
  /\ patches # <<>>
  /\ JsonEq(given, desired)
  /\ contains(desired, "a") /\ is_null(desired.m["a"])
  /\ contains(desired, "b") /\ is_object(desired.m["b"])

\* every key of d that has to be in the patch p is there, at every
\* depth: a scalar key whose value is unequal to the one of o, or that is
\* absent or null in o, with the value of d; a nested key is diffed against
\* its value in o, the empty tree if o has none
RECURSIVE Complete(_, _, _)
Complete(p, o, d) ==
  \A k \in DOMAIN d.m :
    IF is_object(d.m[k])
    THEN Complete(Subscript(p, k), Subscript(o, k), d.m[k])
    ELSE (~JsonEq(Subscript(o, k), d.m[k]) \/ is_null(Subscript(o, k))) =>
           contains(p, k) /\ JsonEq(p.m[k], d.m[k])

\* every key of the patch p is a key of d, at every depth
RECURSIVE OnlyDesired(_, _)
OnlyDesired(p, d) ==
  is_object(p) =>
    \A k \in DOMAIN p.m :
      /\ contains(d, k)
      /\ is_object(d.m[k]) => OnlyDesired(p.m[k], d.m[k])

\* C19: detectChanges never ends with an exception, whatever the shape of
\* the observed tree, and its patch holds every scalar key of the desired
\* tree whose value is unequal, absent or null in the observed tree, with
\* the desired value, nested keys included, and no key of the observed tree
\* alone.
DiffCompleteness ==
  /\ ~raised
  /\ \A i \in 1..Len(patches) :
       Complete(patches[i], given, desired) /\ OnlyDesired(patches[i], desired)

\* C20: after any number of calls of detectChanges the observed tree is the
\* tree that was given (the desired tree is never written), and the calls
\* have all returned the same patch.
DiffSideEffectFree ==
  patches # <<>> =>
    /\ JsonEq(observed, given)
    /\ \A i, j \in 1..Len(patches) : JsonEq(patches[i], patches[j])

\* the receiver snapshot reports "absent", has no status or has no string
\* as its name
ReceiverFailed(rs) ==
  /\ ~empty(rs)
  /\ \/ is_null(Subscript(rs, "status"))
     \/ JsonEq(Subscript(rs, "status"), Str("absent"))
     \/ ~is_string(Subscript(rs, "name"))

\* the decoder snapshot reports "absent" or has no status
DecoderFailed(ds) ==
  /\ ~empty(ds)
  /\ \/ is_null(Subscript(ds, "status"))
     \/ JsonEq(Subscript(ds, "status"), Str("absent"))

\* C15: the check of a task whose snapshot reports "absent" or has no status
\* (for the receiver: or no string as its name) requests shutdown, sets the
\* termination flag and publishes no Configure or Start to that task.
TerminalFailure ==
  [][/\ (pc = "rx" /\ pc' # "rx" /\ ReceiverFailed(receiverStatus)) =>
          /\ Shutdown("receiver") \in out'
          /\ terminate'
          /\ Published(out', "receiver") = {}
     /\ (pc = "dec" /\ pc' # "dec" /\ DecoderFailed(decoderStatus)) =>
          /\ Shutdown("decoder") \in out'
          /\ terminate'
          /\ Published(out', "decoder") = {}]_vars

\* a step published Start to the task
Started(o, task) == \E c \in Published(o, task) : c.cmd = "Start"

\* C16: a step publishes Start to a task only when the diff its tick has
\* computed for the task (config) is empty and the status of the snapshot is
\* "idle"; so a tick that published Configure publishes no Start, whenever
\* the callback of the Configure runs.
ConfigPendingBlocksStart ==
  [][/\ Started(out', "receiver") =>
          /\ empty(config)
          /\ JsonEq(Subscript(receiverStatus, "status"), Str("idle"))
     /\ Started(out', "decoder") =>
          /\ empty(config)
          /\ JsonEq(Subscript(decoderStatus, "status"), Str("idle"))]_vars

\* the steps of an iteration after the test of line 428, with the positions
\* the control thread can go to from each
Successors ==
  [p \in {"rx", "rxB", "dec", "decB", "time", "drain", "flush"} |->
     CASE p = "rx" -> {"rxB", "dec"}
       [] p = "rxB" -> {"dec"}
       [] p = "dec" -> {"decB", "time"}
       [] p = "decB" -> {"time"}
       [] p = "time" -> {"drain"}
       [] p = "drain" -> {"drain", "flush"}
       [] p = "flush" -> {"test"}]

\* C17: an iteration that has passed the test of the termination flag goes
\* through the receiver check, the decoder check, the time-limit check, the
\* drain and the flush in this order, whatever the checks requested, and
\* the loop is left only from a test of the flag: the one of the loop
\* condition, reached after the flush, or the one after the wait.
IterationOrder ==
  [][pc' # pc =>
       /\ pc \in DOMAIN Successors => pc' \in Successors[pc]
       /\ pc' = "rx" => pc = "waiting" /\ ~terminate
       /\ pc' = "test" => pc \in {"init", "flush"}
       /\ pc' = "exit" => pc \in {"test", "waiting"} /\ terminate]_vars

\* the iteration in which the receiver check requested shutdown has gone on
\* to emit a frame and has reached its flush
AbsentTickCompleted ==
  /\ absentSeen
  /\ signals = 0
  /\ nsecs = -1
  /\ pc = "flush"
  /\ emitted # <<>>

\* C18: whenever the control thread is blocked in wait_for with the
\* termination flag set, a notify_all has reached its wait, so that it
\* returns at once and not by its timeout.
ImmediateWake == (pc = "waiting" /\ terminate) => notified

\* C22: every frame a turn of the drain loop emits was in the queue when the
\* loop was entered, so the number of turns of one drain is fixed at its
\* start and frames published while it runs wait for the next iteration.
DrainBounded ==
  [][(pc = "drain" /\ emitted' # emitted) =>
       emitted'[Len(emitted')] <= drainFrom]_vars

\* a step replaced the status of a task's snapshot by "waiting", which no
\* snapshot carries: it is the completion callback of a Start command
WroteWaiting(old, new) ==
  new # old /\ new = Assign(old, "status", Str("waiting"))

\* C24: the completion callback of a Start command writes "waiting" only on
\* top of the snapshot that was current when the Start was published: no
\* status event of the task has been delivered between the two.
WaitingOnStartedSnapshot ==
  [][/\ WroteWaiting(receiverStatus, receiverStatus') =>
          "receiver" \in startedSince
     /\ WroteWaiting(decoderStatus, decoderStatus') =>
          "decoder" \in startedSince]_vars

\* C25: a termination signal that runs intHandler finds app set to the
\* constructed Main: the handler never calls finish() through the pointer
\* before main() has assigned it.
SignalFindsApp == [][signals' # signals => app = "main"]_vars

\* C21: every snprintf call of printFrame is given a size that is the space
\* left in the buffer or less, computed without going below zero, and what
\* it stores ends inside the buffer, whatever the length of the payload.
WritesInsideBuffer ==
  write # Null =>
    /\ write.size >= 0
    /\ write.at + write.size <= BufferSize
    /\ write.at + write.stored <= BufferSize

\* both tasks have left "idle" on a Start command
BothStarted ==
  \A t \in Tasks : JsonEq(Subscript(taskStatus[t], "status"), Str("streaming"))

\* the diff of the supervisor's snapshot of each task is computed and empty
BothEmpty ==
  LET r == checkReceiverStatus(receiverStatus, decoderParams)
      d == checkDecoderStatus(decoderStatus, decoderParams)
  IN /\ r.diffed /\ empty(r.config)
     /\ d.diffed /\ empty(d.config)

\* no command has been published that a task has not handled
Quiet ==
  /\ \A t \in Tasks : Published(out, t) = {} /\ inbox[t] = <<>>

\* the run has converged
Reconciled == BothStarted /\ BothEmpty /\ Quiet

\* C23: with a receiver of a known type, tasks that apply every Configure,
\* acknowledge every command and publish their status after each change, and
\* no shutdown request, the run reaches a point from which on both tasks
\* have an empty diff, have been sent Start, and no command is published,
\* in whatever order snapshots, acknowledgements and ticks interleave.
ReconciliationConverges == <>[]Reconciled

\* both tasks were configured and started and nothing is left in flight
ReconciledAfterConfigure ==
  /\ Reconciled
  /\ taskStatus["receiver"] = Assign(RxReady, "status", Str("streaming"))
  /\ \A t \in Tasks : news[t] = <<>> /\ acks[t] = <<>>
  /\ pc = "waiting"

====
